---- MODULE Spec2Model ----
(***************************************************************************)
(* A model of git_switch.py: the persona registry (class Manager), its     *)
(* JSON persistence (__enter__ / __exit__) and the command line (main).    *)
(*                                                                         *)
(* Python str values are sequences of characters.  A character is a        *)
(* one-element TLA+ string; a literal that holds no shell metacharacter    *)
(* ("git", "user.name") is written as one element.  None and the other     *)
(* dynamically typed values carry a tag t.                                 *)
(***************************************************************************)
EXTENDS Integers, Sequences, FiniteSets, TLC

VARIABLES
    file,     \* the backing file ~/.config/git-switch.json
    config,   \* Manager.config (Unset before the first __enter__)
    pc,       \* "out": outside the with block; "in": inside it;
              \* "raising": an exception is leaving the with block
    last,     \* the last Manager method called: its arguments, the config it
              \* ran on and its result
    issued,   \* what the os.system calls of the last method handed to git
    saves,    \* number of runs of __exit__ in the current session
    stdout,   \* what main printed in the current session
    outcome,  \* how the last session ended: "none", "finished", "crashed"
    loadFailed, \* the try block of the last __enter__ raised
    config2,  \* Manager.config of a second process on the same file
    pc2,      \* the second process: "out", "in", "leaving", "done"
    lastOut   \* the process whose __exit__ ran last (0: none yet)

vars == <<file, config, pc, last, issued, saves, stdout, outcome,
          loadFailed, config2, pc2, lastOut>>

----------------------------------------------------------------------------
(* Values *)

None == [t |-> "None"]
Str(s) == [t |-> "str", v |-> s]
Bool(b) == [t |-> "bool", v |-> b]
Obj(p) == [t |-> "Persona", v |-> p]
List(l) == [t |-> "list", v |-> l]

\* The persona names, commit names, e-mails and key paths the model draws
\* its inputs from.  The empty name is falsy in Python; one commit name
\* holds a double quote.
Names == {<<>>, <<"a">>, <<"b">>}
CommitNames == {<<"A">>, <<"A", "\"", "B">>}
Emails == {<<"e">>}
KeyPaths == {<<"k">>}

\* @dataclass Persona
Persona(persona_name, commit_name, email, ssh_key_path) ==
    [persona_name |-> persona_name, commit_name |-> commit_name,
     email |-> email, ssh_key_path |-> ssh_key_path]

Personas ==
    {Persona(n, c, e, k) : n \in Names, c \in CommitNames, e \in Emails, k \in KeyPaths}

\* @dataclass Config
Config(current_persona, personas) ==
    [current_persona |-> current_persona, personas |-> personas]

EmptyDict == [k \in {} |-> None]

\* The state of a Manager on which __enter__ has not run: no config attribute.
Unset == [t |-> "unset"]

\* Python truthiness of a current_persona value: None and '' are falsy.
Truthy(x) == x.t = "str" /\ x.v # <<>>

\* Code point of a character, for the order of str values.
Ord(c) == CASE c = " " -> 32 [] c = "\"" -> 34 [] c = "A" -> 65 [] c = "B" -> 66
            [] c = "a" -> 97 [] c = "b" -> 98 [] c = "e" -> 101 [] c = "k" -> 107

\* s < t on str values (lexicographic by code point).
RECURSIVE StrLess(_, _)
StrLess(s, t) ==
    IF t = <<>> THEN FALSE
    ELSE IF s = <<>> THEN TRUE
    ELSE IF Head(s) # Head(t) THEN Ord(Head(s)) < Ord(Head(t))
    ELSE StrLess(Tail(s), Tail(t))

----------------------------------------------------------------------------
(* JSON documents.  An object is the sequence of its <<key, value>> members *)
(* in document order.                                                       *)

JNull == [t |-> "null"]
JStr(s) == [t |-> "str", v |-> s]
JObj(members) == [t |-> "obj", v |-> members]

JKeys(o) == {o.v[i][1] : i \in 1..Len(o.v)}
\* o[key] of the dict json.load builds (the last member of that key).
JGet(o, key) ==
    LET i == CHOOSE i \in 1..Len(o.v) :
                 o.v[i][1] = key /\ \A j \in (i+1)..Len(o.v) : o.v[j][1] # key
    IN  o.v[i][2]

\* The field names dataclasses.asdict gives a Config and a Persona.
K_current_persona == <<"current_persona">>
K_personas == <<"personas">>
K_persona_name == <<"persona_name">>
K_commit_name == <<"commit_name">>
K_email == <<"email">>
K_ssh_key_path == <<"ssh_key_path">>
PersonaFields == {K_persona_name, K_commit_name, K_email, K_ssh_key_path}

\* The backing file: absent, text that is not JSON, or a JSON document.
Missing == [kind |-> "missing"]
Garbage == [kind |-> "garbage"]
Json(doc) == [kind |-> "json", doc |-> doc]

\* json.load's value for a JSON scalar.
FromJson(j) == IF j.t = "null" THEN None ELSE Str(j.v)
\* json.dump's text for a current_persona value.
ToJson(x) == IF x.t = "None" THEN JNull ELSE JStr(x.v)

\* dataclasses.asdict of a Persona, as json.dump writes it.
PersonaDict(p) ==
    JObj(<< <<K_persona_name, JStr(p.persona_name)>>,
            <<K_commit_name, JStr(p.commit_name)>>,
            <<K_email, JStr(p.email)>>,
            <<K_ssh_key_path, JStr(p.ssh_key_path)>> >>)

\* Persona(**persona_dict) succeeds: a mapping with exactly the four fields.
IsPersonaDict(d) ==
    d.t = "obj" /\ Len(d.v) = 4 /\ JKeys(d) = PersonaFields

\* Persona(**persona_dict)
PersonaOf(d) ==
    Persona(JGet(d, K_persona_name).v, JGet(d, K_commit_name).v,
            JGet(d, K_email).v, JGet(d, K_ssh_key_path).v)

\* The keys of a dict in ascending order.
RECURSIVE SortedKeys(_)
SortedKeys(S) ==
    IF S = {} THEN <<>>
    ELSE LET m == CHOOSE m \in S : \A o \in S \ {m} : StrLess(m, o)
         IN  <<m>> \o SortedKeys(S \ {m})

----------------------------------------------------------------------------
(* Persistence *)

Put(d, k, v) == [x \in DOMAIN d \cup {k} |-> IF x = k THEN v ELSE d[x]]
Del(d, k) == [x \in DOMAIN d \ {k} |-> d[x]]

\* The loop of __enter__ over _dict['personas'].values(), in document order:
\* each record is stored under its own persona_name.
RECURSIVE LoadPersonas(_, _)
LoadPersonas(members, personas) ==
    IF members = <<>> THEN personas
    ELSE LET persona == PersonaOf(Head(members)[2])
         IN  LoadPersonas(Tail(members), Put(personas, persona.persona_name, persona))

\* What the except branch of __enter__ leaves.
EmptyConfig == Config(None, EmptyDict)

\* The try block of __enter__ raises: open() fails, json.load fails, a
\* subscript fails, .values() fails or Persona(**persona_dict) fails.
LoadRaises(f) ==
    \/ f.kind # "json"
    \/ f.doc.t # "obj"
    \/ K_current_persona \notin JKeys(f.doc)
    \/ K_personas \notin JKeys(f.doc)
    \/ JGet(f.doc, K_personas).t # "obj"
    \/ \E i \in 1..Len(JGet(f.doc, K_personas).v) :
           ~IsPersonaDict(JGet(f.doc, K_personas).v[i][2])

\* Load reading the pointer from the documented field name, currentPersona.
Load_DocumentedKey(f) ==
    IF \/ f.kind # "json" \/ f.doc.t # "obj"
       \/ <<"currentPersona">> \notin JKeys(f.doc)
       \/ K_personas \notin JKeys(f.doc)
       \/ JGet(f.doc, K_personas).t # "obj"
       \/ \E i \in 1..Len(JGet(f.doc, K_personas).v) :
              ~IsPersonaDict(JGet(f.doc, K_personas).v[i][2])
    THEN EmptyConfig
    ELSE Config(FromJson(JGet(f.doc, <<"currentPersona">>)),
                LoadPersonas(JGet(f.doc, K_personas).v, EmptyDict))

\* Load whose except branch does not reset: what line 75 assigned stays.
Load_KeepsPartial(f) ==
    IF ~LoadRaises(f)
    THEN Config(FromJson(JGet(f.doc, K_current_persona)),
                LoadPersonas(JGet(f.doc, K_personas).v, EmptyDict))
    ELSE IF f.kind = "json" /\ f.doc.t = "obj" /\ K_current_persona \in JKeys(f.doc)
    THEN Config(FromJson(JGet(f.doc, K_current_persona)), EmptyDict)
    ELSE EmptyConfig

\* Load that skips the records Persona(**persona_dict) rejects.
RECURSIVE WellFormedMembers(_)
WellFormedMembers(members) ==
    IF members = <<>> THEN <<>>
    ELSE (IF IsPersonaDict(Head(members)[2]) THEN <<Head(members)>> ELSE <<>>)
             \o WellFormedMembers(Tail(members))

Load_SkipsMalformed(f) ==
    IF \/ f.kind # "json" \/ f.doc.t # "obj"
       \/ K_current_persona \notin JKeys(f.doc)
       \/ K_personas \notin JKeys(f.doc)
       \/ JGet(f.doc, K_personas).t # "obj"
    THEN EmptyConfig
    ELSE Config(FromJson(JGet(f.doc, K_current_persona)),
                LoadPersonas(WellFormedMembers(JGet(f.doc, K_personas).v), EmptyDict))

\* Manager.__enter__: the config it leaves for the file f.
Load(f) ==
    IF LoadRaises(f) THEN EmptyConfig
    ELSE Config(FromJson(JGet(f.doc, K_current_persona)),
                LoadPersonas(JGet(f.doc, K_personas).v, EmptyDict))

\* Dump naming the pointer as the documentation does, currentPersona.
Dump_DocumentedKey(cfg) ==
    LET keys == SortedKeys(DOMAIN cfg.personas)
    IN  Json(JObj(<<
            <<<<"currentPersona">>, ToJson(cfg.current_persona)>>,
            <<K_personas,
              JObj([i \in 1..Len(keys) |->
                       <<keys[i], PersonaDict(cfg.personas[keys[i]])>>])>> >>))

\* Manager.__exit__: json.dump(dataclasses.asdict(self.config)).  The members
\* of personas are written under their dict keys; the model keeps no
\* insertion order and writes them in ascending key order.
Dump(cfg) ==
    LET keys == SortedKeys(DOMAIN cfg.personas)
    IN  Json(JObj(<<
            <<K_current_persona, ToJson(cfg.current_persona)>>,
            <<K_personas,
              JObj([i \in 1..Len(keys) |->
                       <<keys[i], PersonaDict(cfg.personas[keys[i]])>>])>> >>))

----------------------------------------------------------------------------
(* os.system: /bin/sh splits the command line into words and runs git.     *)

\* The scan of sh over a command line: blanks separate words outside double
\* quotes, a double quote opens or closes a quoted part of a word.
RECURSIVE ShScan(_, _, _, _, _)
ShScan(rest, words, word, inWord, quoted) ==
    IF rest = <<>> THEN
        IF quoted THEN [t |-> "syntax error"]
        ELSE [t |-> "exec", argv |-> IF inWord THEN Append(words, word) ELSE words]
    ELSE LET c == Head(rest) IN
        IF quoted THEN
            IF c = "\"" THEN ShScan(Tail(rest), words, word, TRUE, FALSE)
            ELSE ShScan(Tail(rest), words, Append(word, c), TRUE, TRUE)
        ELSE IF c = "\"" THEN ShScan(Tail(rest), words, word, TRUE, TRUE)
        ELSE IF c = " " THEN
            ShScan(Tail(rest), IF inWord THEN Append(words, word) ELSE words,
                   <<>>, FALSE, FALSE)
        ELSE ShScan(Tail(rest), words, Append(word, c), TRUE, FALSE)

\* os.system(command): the argument vector git is run with, or sh's syntax
\* error (an unterminated quote: nothing is run).
System(command) == ShScan(command, <<>>, <<>>, FALSE, FALSE)

\* f'git config {_global} <key> "<value>"'
GitConfigCommand(flag, key, value) ==
    <<"git", " ", "config", " ">> \o flag \o <<" ", key, " ", "\"">>
        \o value \o <<"\"">>

----------------------------------------------------------------------------
(* The methods of Manager, as functions of the config they run on.         *)

\* What a method leaves: the config, the exception it raised ("none" when it
\* returned), the value it returned and the outcome of its os.system calls.
Result(cfg, exc, val, sys) == [config |-> cfg, exc |-> exc, val |-> val, issued |-> sys]
Returns(cfg, val) == Result(cfg, "none", val, <<>>)
Raises(cfg, exc) == Result(cfg, exc, None, <<>>)

has_persona(cfg, persona_name) ==
    Returns(cfg, Bool(persona_name \in DOMAIN cfg.personas))

get_persona(cfg, persona_name) ==
    IF persona_name \in DOMAIN cfg.personas
    THEN Returns(cfg, Obj(cfg.personas[persona_name]))
    ELSE Raises(cfg, "KeyError")

\* set_persona written with dict.setdefault: a name in use keeps its record.
set_persona_OnlyInserts(cfg, persona) ==
    IF persona.persona_name \in DOMAIN cfg.personas THEN Returns(cfg, None)
    ELSE Returns(Config(cfg.current_persona,
                        Put(cfg.personas, persona.persona_name, persona)), None)

\* set_persona that also makes the persona the current one.
set_persona_SelectsIt(cfg, persona) ==
    Returns(Config(Str(persona.persona_name),
                   Put(cfg.personas, persona.persona_name, persona)), None)

set_persona(cfg, persona) ==
    Returns(Config(cfg.current_persona,
                   Put(cfg.personas, persona.persona_name, persona)), None)

switch_persona(cfg, persona_name, global) ==
    IF persona_name \notin DOMAIN cfg.personas THEN Raises(cfg, "ValueError")
    ELSE LET persona == cfg.personas[persona_name]
             flag == IF global THEN <<"--global">> ELSE <<>>
         IN  Result(Config(Str(persona_name), cfg.personas), "none", None,
                    << System(GitConfigCommand(flag, "user.name", persona.commit_name)),
                       System(GitConfigCommand(flag, "user.email", persona.email)),
                       System(GitConfigCommand(flag, "core.sshCommand",
                                  <<"ssh", " ", "-i", " ">> \o persona.ssh_key_path)) >>)

get_current_persona(cfg) ==
    IF ~Truthy(cfg.current_persona) THEN Returns(cfg, None)
    ELSE IF cfg.current_persona.v \in DOMAIN cfg.personas
    THEN Returns(cfg, Obj(cfg.personas[cfg.current_persona.v]))
    ELSE Raises(cfg, "KeyError")

\* rename_persona that moves the record and forgets its persona_name field.
rename_persona_KeepsName(cfg, old_name, new_name) ==
    IF old_name \notin DOMAIN cfg.personas THEN Raises(cfg, "KeyError")
    ELSE Returns(Config(cfg.current_persona,
                        Put(Del(cfg.personas, old_name), new_name,
                            cfg.personas[old_name])), None)

\* rename_persona that moves the current pointer along with the record.
rename_persona_FollowsPointer(cfg, old_name, new_name) ==
    IF old_name \notin DOMAIN cfg.personas THEN Raises(cfg, "KeyError")
    ELSE Returns(Config(IF cfg.current_persona = Str(old_name) THEN Str(new_name)
                        ELSE cfg.current_persona,
                        Put(Del(cfg.personas, old_name), new_name,
                            [cfg.personas[old_name] EXCEPT !.persona_name = new_name])),
                 None)

\* rename_persona that refuses a new name already in use.
rename_persona_RejectsCollision(cfg, old_name, new_name) ==
    IF old_name \notin DOMAIN cfg.personas THEN Raises(cfg, "KeyError")
    ELSE IF new_name \in DOMAIN cfg.personas /\ new_name # old_name
    THEN Raises(cfg, "ValueError")
    ELSE Returns(Config(cfg.current_persona,
                        Put(Del(cfg.personas, old_name), new_name,
                            [cfg.personas[old_name] EXCEPT !.persona_name = new_name])),
                 None)

rename_persona(cfg, old_name, new_name) ==
    IF old_name \notin DOMAIN cfg.personas THEN Raises(cfg, "KeyError")
    ELSE LET persona == cfg.personas[old_name]
             renamed == [persona EXCEPT !.persona_name = new_name]
         IN  Returns(Config(cfg.current_persona,
                            Put(Del(cfg.personas, old_name), new_name, renamed)), None)

\* remove_persona written with dict.pop(name, None): silent on an absent name.
remove_persona_IgnoresAbsent(cfg, persona_name) ==
    Returns(Config(cfg.current_persona, Del(cfg.personas, persona_name)), None)

\* remove_persona that clears the current pointer when it named the record.
remove_persona_ClearsPointer(cfg, persona_name) ==
    IF persona_name \notin DOMAIN cfg.personas THEN Raises(cfg, "KeyError")
    ELSE Returns(Config(IF cfg.current_persona = Str(persona_name) THEN None
                        ELSE cfg.current_persona,
                        Del(cfg.personas, persona_name)), None)

remove_persona(cfg, persona_name) ==
    IF persona_name \notin DOMAIN cfg.personas THEN Raises(cfg, "KeyError")
    ELSE Returns(Config(cfg.current_persona, Del(cfg.personas, persona_name)), None)

\* sorted(values, key=persona_name): a stable insertion of each value.
RECURSIVE SortedByName(_)
SortedByName(S) ==
    IF S = {} THEN <<>>
    ELSE LET m == CHOOSE m \in S :
                      \A o \in S \ {m} : ~StrLess(o.persona_name, m.persona_name)
         IN  <<m>> \o SortedByName(S \ {m})

\* list_personas with the values in dict order, not sorted (here: descending).
list_personas_Unsorted(cfg) ==
    LET l == SortedByName({cfg.personas[k] : k \in DOMAIN cfg.personas})
    IN  Returns(cfg, List([i \in 1..Len(l) |-> l[Len(l) + 1 - i]]))

list_personas(cfg) ==
    Returns(cfg, List(SortedByName({cfg.personas[k] : k \in DOMAIN cfg.personas})))

----------------------------------------------------------------------------
(* The files a first session may find.                                     *)

PA == Persona(<<"a">>, <<"A">>, <<"e">>, <<"k">>)
PB == Persona(<<"b">>, <<"A", "\"", "B">>, <<"e">>, <<"k">>)

\* A persona record lacking ssh_key_path, and one with a field too many.
ShortDict == JObj(<< <<K_persona_name, JStr(<<"b">>)>>, <<K_commit_name, JStr(<<"A">>)>>,
                     <<K_email, JStr(<<"e">>)>> >>)
LongDict == JObj(Append(PersonaDict(PB).v, <<<<"note">>, JStr(<<"e">>)>>))

Document(currentKey, current, members) ==
    Json(JObj(<< <<currentKey, current>>, <<K_personas, JObj(members)>> >>))

InitFiles ==
    { Missing,
      Garbage,
      Json(JStr(<<"a">>)),
      Json(JObj(<< <<K_current_persona, JStr(<<"a">>)>> >>)),
      Json(JObj(<< <<K_personas, JObj(<< <<<<"a">>, PersonaDict(PA)>> >>)>> >>)),
      Json(JObj(<< <<K_current_persona, JStr(<<"a">>)>>, <<K_personas, JStr(<<"a">>)>> >>)),
      \* the format the documentation gives: the pointer is named currentPersona
      Document(<<"currentPersona">>, JStr(<<"a">>), << <<<<"a">>, PersonaDict(PA)>> >>),
      \* well-formed files
      Document(K_current_persona, JNull, <<>>),
      Document(K_current_persona, JStr(<<"a">>),
               << <<<<"a">>, PersonaDict(PA)>>, <<<<"b">>, PersonaDict(PB)>> >>),
      \* a member stored under a key that is not its persona_name
      Document(K_current_persona, JStr(<<"a">>), << <<<<"b">>, PersonaDict(PA)>> >>),
      \* a malformed member after a well-formed one
      Document(K_current_persona, JStr(<<"a">>),
               << <<<<"a">>, PersonaDict(PA)>>, <<<<"b">>, ShortDict>> >>),
      Document(K_current_persona, JStr(<<"a">>),
               << <<<<"a">>, PersonaDict(PA)>>, <<<<"b">>, LongDict>> >>),
      Document(K_current_persona, JStr(<<"a">>),
               << <<<<"a">>, PersonaDict(PA)>>, <<<<"b">>, JStr(<<"b">>)>> >>) }

----------------------------------------------------------------------------
(* The state machine *)

\* The record of a method call: the method, its arguments, the config it ran
\* on, the exception it raised ("none" when it returned) and its value.
Called(op, args, r) ==
    [op |-> op, args |-> args, before |-> config, exc |-> r.exc, val |-> r.val]
NoCall == [op |-> "none", args |-> <<>>, before |-> Unset, exc |-> "none", val |-> None]

\* Manager(config_path): no config attribute yet.
Init ==
    /\ file \in InitFiles
    /\ config = Unset
    /\ pc = "out"
    /\ last = NoCall
    /\ issued = <<>>
    /\ saves = 0
    /\ stdout = <<>>
    /\ outcome = "none"
    /\ loadFailed = FALSE
    /\ config2 = Unset
    /\ pc2 = "out"
    /\ lastOut = 0

\* with Manager(config_path) as manager: __enter__ of a session.
Begin ==
    /\ config' = Load(file)
    /\ loadFailed' = LoadRaises(file)
    /\ pc' = "in"
    /\ last' = Called("__enter__", <<>>, Returns(config', None))
    /\ issued' = <<>>
    /\ saves' = 0
    /\ stdout' = <<>>
    /\ outcome' = "none"
    /\ UNCHANGED <<file, config2, pc2, lastOut>>

\* A method call inside the with block by a program that uses Manager as a
\* library.  When the method raises, the caller either handles the exception
\* inside the block or lets it leave the block.
Call(op, args, r) ==
    /\ pc = "in"
    /\ config' = r.config
    /\ last' = Called(op, args, r)
    /\ issued' = r.issued
    /\ \E handled \in BOOLEAN :
           pc' = IF r.exc = "none" \/ handled THEN "in" ELSE "raising"
    /\ UNCHANGED <<file, saves, stdout, outcome, loadFailed, config2, pc2, lastOut>>

HasPersona == \E n \in Names : Call("has_persona", <<n>>, has_persona(config, n))
GetPersona == \E n \in Names : Call("get_persona", <<n>>, get_persona(config, n))
SetPersona == \E p \in Personas : Call("set_persona", <<p>>, set_persona(config, p))
SwitchPersona ==
    \E n \in Names, g \in BOOLEAN :
        Call("switch_persona", <<n, g>>, switch_persona(config, n, g))
GetCurrentPersona == Call("get_current_persona", <<>>, get_current_persona(config))
RenamePersona ==
    \E a \in Names, b \in Names :
        Call("rename_persona", <<a, b>>, rename_persona(config, a, b))
RemovePersona == \E n \in Names : Call("remove_persona", <<n>>, remove_persona(config, n))
ListPersonas == Call("list_personas", <<>>, list_personas(config))

\* __exit__ that saves only when the block ended without an exception.
Save_UnlessRaising ==
    /\ file' = IF pc = "raising" THEN file ELSE Dump(config)
    /\ saves' = IF pc = "raising" THEN saves ELSE saves + 1
    /\ pc' = "out"
    /\ outcome' = IF pc = "raising" THEN "crashed" ELSE "finished"
    /\ lastOut' = 1
    /\ UNCHANGED <<config, last, issued, stdout, loadFailed, config2, pc2>>

\* __exit__ that writes only when the config is not what the file holds.
Save_IfDirty ==
    /\ file' = IF config = Load(file) THEN file ELSE Dump(config)
    /\ saves' = saves + 1
    /\ pc' = "out"
    /\ outcome' = IF pc = "raising" THEN "crashed" ELSE "finished"
    /\ lastOut' = 1
    /\ UNCHANGED <<config, last, issued, stdout, loadFailed, config2, pc2>>

\* Manager.__exit__: the save, whatever way the block is left.  It returns
\* None, so an exception that was leaving the block goes on to the caller.
Save ==
    /\ file' = Dump(config)
    /\ saves' = saves + 1
    /\ pc' = "out"
    /\ outcome' = IF pc = "raising" THEN "crashed" ELSE "finished"
    /\ lastOut' = 1
    /\ UNCHANGED <<config, last, issued, stdout, loadFailed, config2, pc2>>

\* One process: it enters the with block once, calls methods, leaves.
Enter == pc = "out" /\ outcome = "none" /\ saves = 0 /\ Begin
Exit == pc \in {"in", "raising"} /\ Save

Next ==
    \/ Enter
    \/ HasPersona
    \/ GetPersona
    \/ SetPersona
    \/ SwitchPersona
    \/ GetCurrentPersona
    \/ RenamePersona
    \/ RemovePersona
    \/ ListPersonas
    \/ Exit

Spec == Init /\ [][Next]_vars

----------------------------------------------------------------------------
(* main: every run of the command is a process of its own; the processes   *)
(* run one after the other on the same file.                               *)

Line(text, args) == [text |-> text, args |-> args]

\* A branch of main has run: what its last method call was, what it printed
\* and whether an exception is leaving the with block.
Branch(op, args, r, lines) ==
    /\ pc = "in"
    /\ config' = r.config
    /\ last' = Called(op, args, r)
    /\ issued' = r.issued
    /\ stdout' = lines
    /\ pc' = IF r.exc = "none" THEN "leaving" ELSE "raising"
    /\ UNCHANGED <<file, saves, outcome, loadFailed, config2, pc2, lastOut>>

MainEnter == pc = "out" /\ Begin

\* args.subcommand == 'add'
MainAdd ==
    \E persona \in Personas :
        Branch("set_persona", <<persona>>, set_persona(config, persona),
               <<Line("Adding a new persona ...", <<>>), Line("Persona added", <<>>)>>)

\* args.subcommand == 'list'
MainList ==
    pc = "in" /\
    LET r == list_personas(config)
    IN  Branch("list_personas", <<>>, r,
               [i \in 1..Len(r.val.v) |->
                   Line("{}: {} <{}>", <<r.val.v[i].persona_name, r.val.v[i].commit_name,
                                        r.val.v[i].email>>)])

\* args.subcommand == 'remove'
MainRemove ==
    \E persona_name \in Names :
        pc = "in" /\
        IF ~has_persona(config, persona_name).val.v
        THEN Branch("has_persona", <<persona_name>>, has_persona(config, persona_name),
                    <<Line("Persona '{}' not found", <<persona_name>>)>>)
        ELSE LET r == remove_persona(config, persona_name)
             IN  Branch("remove_persona", <<persona_name>>, r,
                        IF r.exc = "none"
                        THEN <<Line("Removed persona '{}'", <<persona_name>>)>> ELSE <<>>)

\* args.subcommand == 'rename'
MainRename ==
    \E old_name \in Names, new_name \in Names :
        pc = "in" /\
        IF ~has_persona(config, old_name).val.v
        THEN Branch("has_persona", <<old_name>>, has_persona(config, old_name),
                    <<Line("Persona '{}' not found", <<old_name>>)>>)
        ELSE LET r == rename_persona(config, old_name, new_name)
             IN  Branch("rename_persona", <<old_name, new_name>>, r,
                        IF r.exc = "none"
                        THEN <<Line("Renamed persona '{}' to '{}'", <<old_name, new_name>>)>>
                        ELSE <<>>)

\* args.subcommand == 'become': the ValueError is handled inside the block.
MainBecome ==
    \E persona \in Names, global \in BOOLEAN :
        pc = "in" /\
        LET r == switch_persona(config, persona, global)
        IN  IF r.exc = "ValueError"
            THEN Branch("switch_persona", <<persona, global>>,
                        [r EXCEPT !.exc = "none"],
                        <<Line("Persona {} not found", <<persona>>)>>)
            ELSE Branch("switch_persona", <<persona, global>>, r,
                        IF r.exc = "none"
                        THEN <<Line("Switched to persona {}", <<persona>>)>> ELSE <<>>)

\* no subcommand
MainCurrent ==
    pc = "in" /\
    LET r == get_current_persona(config)
    IN  IF r.exc # "none" THEN Branch("get_current_persona", <<>>, r, <<>>)
        ELSE IF r.val.t = "Persona" /\ has_persona(config, r.val.v.persona_name).val.v
        THEN Branch("has_persona", <<r.val.v.persona_name>>,
                    has_persona(config, r.val.v.persona_name),
                    <<Line("Currently using persona: {}", <<r.val.v.persona_name>>)>>)
        ELSE Branch("get_current_persona", <<>>, r, <<Line("No persona set", <<>>)>>)

MainExit == pc \in {"leaving", "raising"} /\ Save

NextCLI ==
    \/ MainEnter
    \/ MainAdd
    \/ MainList
    \/ MainRemove
    \/ MainRename
    \/ MainBecome
    \/ MainCurrent
    \/ MainExit

SpecCLI == Init /\ [][NextCLI]_vars

----------------------------------------------------------------------------
(* Two runs of main at the same time on one file.  Nothing locks the file: *)
(* each process loads it when it enters its with block and writes its own  *)
(* config when it leaves.  The first process is the one above (config,     *)
(* pc); the second keeps its Manager's config in config2 and its position  *)
(* in pc2.  What the second process prints and the git commands it runs go *)
(* to its own terminal and repository and are not recorded.  lastOut tells *)
(* which process wrote the file last.                                      *)

\* The second process enters its with block: Manager.__enter__.
Enter2 ==
    /\ pc2 = "out"
    /\ config2' = Load(file)
    /\ pc2' = "in"
    /\ UNCHANGED <<file, config, pc, last, issued, saves, stdout, outcome, loadFailed, lastOut>>

\* A branch of main has run in the second process.
Branch2(r) ==
    /\ pc2 = "in"
    /\ config2' = r.config
    /\ pc2' = "leaving"
    /\ UNCHANGED <<file, config, pc, last, issued, saves, stdout, outcome, loadFailed, lastOut>>

\* args.subcommand == 'add' in the second process
Add2 ==
    \E persona \in Personas :
        pc2 = "in" /\ Branch2(set_persona(config2, persona))

\* args.subcommand == 'become' in the second process
Become2 ==
    \E persona \in Names, global \in BOOLEAN :
        pc2 = "in" /\ Branch2(switch_persona(config2, persona, global))

\* __exit__ that reads the file again and writes its own config over what
\* the file holds now, keeping the personas another process saved meanwhile.
Exit2_Merging ==
    /\ pc2 = "leaving"
    /\ LET theirs == Load(file).personas
           merged == [n \in DOMAIN theirs \cup DOMAIN config2.personas |->
                         IF n \in DOMAIN config2.personas THEN config2.personas[n]
                         ELSE theirs[n]]
       IN  file' = Dump(Config(config2.current_persona, merged))
    /\ pc2' = "done"
    /\ lastOut' = 2
    /\ UNCHANGED <<config, pc, last, issued, saves, stdout, outcome, loadFailed, config2>>

\* The second process leaves its with block: Manager.__exit__ writes its
\* config over whatever the file holds.
Exit2 ==
    /\ pc2 = "leaving"
    /\ file' = Dump(config2)
    /\ pc2' = "done"
    /\ lastOut' = 2
    /\ UNCHANGED <<config, pc, last, issued, saves, stdout, outcome, loadFailed, config2>>

\* Each process runs main once, with 'add' or 'become'.
NextRace ==
    \/ Enter
    \/ MainAdd
    \/ MainBecome
    \/ MainExit
    \/ Enter2
    \/ Add2
    \/ Become2
    \/ Exit2

SpecRace == Init /\ [][NextRace]_vars

----------------------------------------------------------------------------
(* Properties *)

Has(cfg, n) == n \in DOMAIN cfg.personas
Arg1 == last.args[1]
Arg2 == last.args[2]

\* C1: get_current_persona never raises: in every reachable registry state,
\* a dangling current_persona included, it returns None or a value that
\* tells "not found".  (Specification Spec.)
C1_GetCurrentNeverRaises ==
    last.op = "get_current_persona" => last.exc = "none"

\* C2: no run of the command ends with an unhandled exception for a name
\* that is not in the registry: the process prints a message and finishes
\* normally.  (Specification SpecCLI.)
C2_NoUnhandledNotFound ==
    pc = "out" => outcome # "crashed"

\* C3: round trip: the config a session loads is the config the session
\* before it saved, personas and current_persona alike.  (SpecCLI.)
C3_RoundTrip ==
    (last.op = "__enter__" /\ last.before # Unset) =>
        /\ config.personas = last.before.personas
        /\ config.current_persona = last.before.current_persona

\* A saved and reloaded registry whose pointer dangles.
C3_Witness ==
    /\ last.op = "__enter__" /\ last.before # Unset
    /\ last.before.current_persona = Str(<<"a">>)
    /\ ~Has(last.before, <<"a">>)
    /\ DOMAIN last.before.personas # {}

\* The files C4 speaks of: absent, not JSON, or a JSON object that lacks
\* the personas field or the current-persona field.
C4_Corrupt(f) ==
    \/ f.kind = "missing"
    \/ f.kind = "garbage"
    \/ /\ f.kind = "json" /\ f.doc.t = "obj"
       /\ \/ \A i \in 1..Len(f.doc.v) : f.doc.v[i][1] # <<"personas">>
          \/ \A i \in 1..Len(f.doc.v) : f.doc.v[i][1] # <<"current_persona">>

\* C4: loading a missing or corrupt file raises nothing and leaves the empty
\* registry: no personas, current_persona None.  (SpecCLI.)
C4_CorruptLoadsEmpty ==
    (last.op = "__enter__" /\ C4_Corrupt(file)) =>
        /\ last.exc = "none" /\ pc = "in"
        /\ DOMAIN config.personas = {}
        /\ config.current_persona = None

\* A JSON object with a pointer and no personas field has been loaded.
C4_Witness ==
    /\ last.op = "__enter__" /\ pc = "in"
    /\ file.kind = "json" /\ file.doc.t = "obj"
    /\ JKeys(file.doc) = {<<"current_persona">>}
    /\ config = EmptyConfig

\* C5: every session saves exactly once, after all of its method calls:
\* no save while the with block runs, one save when it has been left, be it
\* at the end of a branch, by an early return or by an exception.  (SpecCLI.)
C5_OneSavePerSession ==
    /\ pc \in {"in", "leaving", "raising"} => saves = 0
    /\ (pc = "out" /\ outcome # "none") => saves = 1
    /\ pc \in {"leaving", "raising"} => ENABLED MainExit

\* A session left by an exception has saved.
C5_Witness ==
    pc = "out" /\ outcome = "crashed" /\ saves = 1

\* What git is run with by a configuration write of key = value.
GitConfig(global, key, value) ==
    [t |-> "exec",
     argv |-> << <<"git">>, <<"config">> >>
                 \o (IF global THEN << <<"--global">> >> ELSE <<>>)
                 \o << <<key>>, value >>]

\* C6: a successful switch_persona(p, scope) sets current_persona = p and
\* issues exactly three configuration writes, user.name = commit_name,
\* user.email = email, core.sshCommand = 'ssh -i <ssh_key_path>', in this
\* order, all global or all local; personas is unchanged.  (Spec.)
C6_SwitchIssuesThreeWrites ==
    (last.op = "switch_persona" /\ last.exc = "none") =>
        LET p == last.before.personas[Arg1] IN
        /\ config.current_persona = Str(Arg1)
        /\ config.personas = last.before.personas
        /\ issued = << GitConfig(Arg2, "user.name", p.commit_name),
                       GitConfig(Arg2, "user.email", p.email),
                       GitConfig(Arg2, "core.sshCommand",
                                 <<"ssh", " ", "-i", " ">> \o p.ssh_key_path) >>

\* C7: get_persona, rename_persona (old name), remove_persona and
\* switch_persona fail on a name that is not in the mapping, with KeyError
\* (ValueError for switch_persona), and leave the config as it was and issue
\* no configuration write.  (Spec.)
C7_AbsentNameFails ==
    (/\ last.op \in {"get_persona", "rename_persona", "remove_persona", "switch_persona"}
     /\ ~Has(last.before, Arg1)) =>
        /\ last.exc = IF last.op = "switch_persona" THEN "ValueError" ELSE "KeyError"
        /\ config = last.before
        /\ issued = <<>>

\* remove_persona has failed on a registry that holds other names.
C7_Witness ==
    /\ last.op = "remove_persona" /\ last.exc = "KeyError"
    /\ DOMAIN last.before.personas # {}
    /\ ~Has(last.before, Arg1)

\* What C8 says of rename_persona(a, b) on the config before and after.
C8_Renamed(before, after, a, b) ==
    /\ ~Has(after, a)
    /\ Has(after, b)
    /\ after.personas[b].persona_name = b
    /\ after.personas[b].commit_name = before.personas[a].commit_name
    /\ after.personas[b].email = before.personas[a].email
    /\ after.personas[b].ssh_key_path = before.personas[a].ssh_key_path
    /\ after.current_persona = before.current_persona

\* C8 as stated: for every existing name a and every name b, after
\* rename_persona(a, b) a is absent, b holds a's record under the name b,
\* and current_persona is what it was.  (Spec.)
C8_RenameAnyName ==
    (last.op = "rename_persona" /\ Has(last.before, Arg1)) =>
        last.exc = "none" /\ C8_Renamed(last.before, config, Arg1, Arg2)

\* C8 amended: the same for every name b other than a; rename_persona(a, a)
\* leaves the config as it was, a still present.  (Spec.)
C8_RenameOtherName ==
    (last.op = "rename_persona" /\ Has(last.before, Arg1)) =>
        /\ last.exc = "none"
        /\ Arg1 # Arg2 => C8_Renamed(last.before, config, Arg1, Arg2)
        /\ Arg1 = Arg2 => config = last.before

\* The current persona has been renamed: the pointer dangles.
C8_Witness ==
    /\ last.op = "rename_persona" /\ last.exc = "none" /\ Arg1 # Arg2
    /\ last.before.current_persona = Str(Arg1)
    /\ Has(last.before, Arg1)
    /\ ~Has(config, Arg1)

\* C9: when a and b both exist and differ, rename_persona(a, b) returns, b
\* holds a's former fields (b's former record is gone), every other entry is
\* unchanged and there is one persona fewer.  (Spec.)
C9_RenameCollision ==
    (/\ last.op = "rename_persona" /\ Arg1 # Arg2
     /\ Has(last.before, Arg1) /\ Has(last.before, Arg2)) =>
        /\ last.exc = "none"
        /\ config.personas[Arg2] = [last.before.personas[Arg1] EXCEPT !.persona_name = Arg2]
        /\ ~Has(config, Arg1)
        /\ \A k \in Names \ {Arg1, Arg2} :
               /\ Has(config, k) <=> Has(last.before, k)
               /\ Has(config, k) => config.personas[k] = last.before.personas[k]
        /\ Cardinality(DOMAIN config.personas)
               = Cardinality(DOMAIN last.before.personas) - 1

\* A rename onto a name in use, whose record differed, with a third entry by.
C9_Witness ==
    /\ last.op = "rename_persona" /\ last.exc = "none" /\ Arg1 # Arg2
    /\ Cardinality(DOMAIN last.before.personas) = 3
    /\ last.before.personas[Arg1].commit_name # last.before.personas[Arg2].commit_name
    /\ Cardinality(DOMAIN config.personas) = 2

\* C10: remove_persona(name) on an existing name deletes that entry alone
\* and leaves current_persona as it was, also when it is name.  (Spec.)
C10_RemoveOnlyThatEntry ==
    (last.op = "remove_persona" /\ Has(last.before, Arg1)) =>
        /\ last.exc = "none"
        /\ DOMAIN config.personas = DOMAIN last.before.personas \ {Arg1}
        /\ \A k \in DOMAIN config.personas : config.personas[k] = last.before.personas[k]
        /\ config.current_persona = last.before.current_persona

\* The current persona has been removed while another entry stays.
C10_Witness ==
    /\ last.op = "remove_persona" /\ last.exc = "none"
    /\ last.before.current_persona = Str(Arg1)
    /\ config.current_persona = Str(Arg1)
    /\ ~Has(config, Arg1)
    /\ DOMAIN config.personas # {}

\* C11: set_persona(p) stores p under its name, whether the name was absent
\* or in use, and touches no other entry and not current_persona; a second
\* call with the same p, on the config the first left, changes nothing.  (Spec.)
C11_IdempotentUpsert ==
    last.op = "set_persona" =>
        /\ last.exc = "none"
        /\ DOMAIN config.personas = DOMAIN last.before.personas \cup {Arg1.persona_name}
        /\ config.personas[Arg1.persona_name] = Arg1
        /\ \A k \in DOMAIN last.before.personas \ {Arg1.persona_name} :
               config.personas[k] = last.before.personas[k]
        /\ config.current_persona = last.before.current_persona
        /\ (Has(last.before, Arg1.persona_name)
                /\ last.before.personas[Arg1.persona_name] = Arg1) => config = last.before

\* set_persona(p) has run on a config that held p already, among others.
C11_Witness ==
    /\ last.op = "set_persona"
    /\ Has(last.before, Arg1.persona_name)
    /\ last.before.personas[Arg1.persona_name] = Arg1
    /\ Cardinality(DOMAIN config.personas) = 2
    /\ config = last.before

\* C12: list_personas returns every persona of the mapping once, in
\* ascending order of persona_name, the empty list for the empty registry,
\* and leaves the config as it was.  (Spec.)
C12_ListSorted ==
    last.op = "list_personas" =>
        LET l == last.val.v IN
        /\ last.exc = "none" /\ last.val.t = "list"
        /\ config = last.before
        /\ Len(l) = Cardinality(DOMAIN config.personas)
        /\ {l[i] : i \in 1..Len(l)} = {config.personas[k] : k \in DOMAIN config.personas}
        /\ \A i \in 1..Len(l), j \in 1..Len(l) :
               i < j => StrLess(l[i].persona_name, l[j].persona_name)
        /\ DOMAIN config.personas = {} => l = <<>>

\* The three names have been listed: '', a, b.
C12_Witness ==
    /\ last.op = "list_personas" /\ Len(last.val.v) = 3
    /\ last.val.v[1].persona_name = <<>>
    /\ last.val.v[2].persona_name = <<"a">>
    /\ last.val.v[3].persona_name = <<"b">>

\* A session has just saved: the file is one __exit__ wrote.
JustSaved == pc = "out" /\ outcome # "none"
\* A session has just loaded the file.
JustLoaded == last.op = "__enter__" /\ pc = "in"

\* The member of name key of the top-level object of the file.
Field(key) ==
    LET i == CHOOSE i \in 1..Len(file.doc.v) : file.doc.v[i][1] = key
    IN  file.doc.v[i][2]
FieldNames == {file.doc.v[i][1] : i \in 1..Len(file.doc.v)}

\* C13: in every config, after a load from any file (one whose keys differ
\* from the persona_name values included) and any method calls, and in every
\* file a save wrote, each entry's key is the persona_name of its record.
\* (SpecCLI.)
C13_KeyIsName ==
    /\ config # Unset =>
           \A k \in DOMAIN config.personas : config.personas[k].persona_name = k
    /\ JustSaved =>
           \A i \in 1..Len(Field(<<"personas">>).v) :
               LET member == Field(<<"personas">>).v[i]
                   name == CHOOSE j \in 1..4 : member[2].v[j][1] = <<"persona_name">>
               IN  member[2].v[name][2] = JStr(member[1])

\* A persona loaded from under a foreign key has been renamed.
C13_Witness ==
    /\ file = Document(K_current_persona, JStr(<<"a">>), << <<<<"b">>, PersonaDict(PA)>> >>)
    /\ last.op = "rename_persona" /\ last.exc = "none"
    /\ Has(config, <<>>)

EmptyDocument ==
    [kind |-> "json",
     doc |-> JObj(<< << <<"current_persona">>, JNull >>,
                     << <<"personas">>, JObj(<<>>) >> >>)]

\* C15: a session whose load failed and that changes nothing still
\* overwrites the file with the empty valid registry, and a load of that
\* file succeeds and gives the empty registry.  (SpecCLI.)
C15_FailedLoadResetsFile ==
    /\ (JustSaved /\ loadFailed /\ outcome = "finished"
            /\ last.op \in {"list_personas", "get_current_persona", "has_persona"}) =>
           file = EmptyDocument
    /\ (JustLoaded /\ file = EmptyDocument) =>
           ~loadFailed /\ config = EmptyConfig

\* A session whose load failed has listed the personas and saved.
C15_Witness ==
    /\ JustSaved /\ loadFailed /\ outcome = "finished"
    /\ last.op = "list_personas"
    /\ file = EmptyDocument

\* A record Persona(**persona_dict) cannot take: not an object, or an
\* object whose field names are not exactly the four of Persona.
C17_Malformed(d) ==
    \/ d.t # "obj"
    \/ {d.v[i][1] : i \in 1..Len(d.v)} #
           {<<"persona_name">>, <<"commit_name">>, <<"email">>, <<"ssh_key_path">>}

\* C17: when the file is a JSON object with both fields and one persona
\* record is malformed, the loaded registry is empty and its pointer None:
\* neither the records read before the bad one nor the file's pointer stay.
\* (SpecCLI.)
C17_LoadAllOrNothing ==
    (/\ JustLoaded /\ file.kind = "json" /\ file.doc.t = "obj"
     /\ FieldNames = {<<"current_persona">>, <<"personas">>}
     /\ Field(<<"personas">>).t = "obj"
     /\ \E i \in 1..Len(Field(<<"personas">>).v) :
            C17_Malformed(Field(<<"personas">>).v[i][2])) =>
        /\ DOMAIN config.personas = {}
        /\ config.current_persona = None

\* A file whose second record lacks a field has been loaded.
C17_Witness ==
    /\ JustLoaded
    /\ file = Document(K_current_persona, JStr(<<"a">>),
                       << <<<<"a">>, PersonaDict(PA)>>, <<<<"b">>, ShortDict>> >>)
    /\ config = EmptyConfig

\* C18: inside a session only a successful switch_persona changes
\* current_persona: has_persona, get_persona, set_persona, rename_persona,
\* remove_persona, list_personas and get_current_persona, returning or
\* raising, and a switch_persona that raises, leave it as it was.  (Spec.)
C18_OnlySwitchMovesPointer ==
    (\/ last.op \in {"has_persona", "get_persona", "set_persona", "rename_persona",
                     "remove_persona", "list_personas", "get_current_persona"}
     \/ (last.op = "switch_persona" /\ last.exc # "none")) =>
        config.current_persona = last.before.current_persona

\* The record of the current persona has been overwritten by set_persona.
C18_Witness ==
    /\ last.op = "set_persona"
    /\ last.before.current_persona = Str(<<"a">>)
    /\ Arg1.persona_name = <<"b">>
    /\ config.current_persona = Str(<<"a">>)

\* C19: when current_persona names a persona of the mapping, the empty name
\* included (as right after a successful switch_persona, and until that
\* persona is removed or renamed or another switch succeeds),
\* get_current_persona returns the record stored under that name, not None.
\* (Spec.)
C19_CurrentIsReturned ==
    (/\ last.op = "get_current_persona"
     /\ last.before.current_persona.t = "str"
     /\ Has(last.before, last.before.current_persona.v)) =>
        /\ last.exc = "none"
        /\ last.val.t = "Persona"
        /\ last.val.v = last.before.personas[last.before.current_persona.v]

\* Both processes have left their with blocks.
BothDone == pc = "out" /\ outcome # "none" /\ pc2 = "done"

\* The file shows exactly the registry cfg: its personas member has the
\* names of cfg's personas and no other, its pointer is cfg's pointer.
FileShows(cfg) ==
    /\ file.kind = "json" /\ file.doc.t = "obj"
    /\ {Field(K_personas).v[i][1] : i \in 1..Len(Field(K_personas).v)} = DOMAIN cfg.personas
    /\ \A i \in 1..Len(Field(K_personas).v) :
           Field(K_personas).v[i][2] = PersonaDict(cfg.personas[Field(K_personas).v[i][1]])
    /\ Field(K_current_persona) = ToJson(cfg.current_persona)

\* C16: the last save wins.  When two sessions on one file have both saved,
\* the file holds only the view of the session that saved last, whatever the
\* other session saved before: a persona added or a switch made by the
\* first session is in the file only if the second session's config has it.
\* With load1, load2, mutate1, mutate2, save1, save2 the first session's
\* update is lost although its save succeeded.  (SpecRace.)
C16_LastSaveWins ==
    BothDone => FileShows(IF lastOut = 2 THEN config2 ELSE config)

\* The first session added persona a and saved; the second session, which
\* can only add and switch, saved last without a: it loaded before the first
\* saved, and a is not in the file.
C16_Witness ==
    /\ BothDone /\ lastOut = 2 /\ outcome = "finished" /\ saves = 1
    /\ last.op = "set_persona" /\ Arg1.persona_name = <<"a">>
    /\ Has(config, <<"a">>)
    /\ ~Has(config2, <<"a">>)
    /\ \A i \in 1..Len(Field(K_personas).v) : Field(K_personas).v[i][1] # <<"a">>

====
